---- MODULE Spec2Model ----
(***************************************************************************)
(* Model of the store-it user actions (createAccount, verifySecret,        *)
(* getCurrentUser, signOutUser, signInUser) as server actions that run     *)
(* concurrently and interleave at every `await`.  The Appwrite Identity    *)
(* Service (documents, email tokens, sessions) and the browser's cookie    *)
(* jar are the shared state; every external call may fail.                 *)
(***************************************************************************)
EXTENDS Naturals, Sequences, FiniteSets

(* ---------------------------- bounds ---------------------------------- *)
MaxProfiles == 2          \* createDocument succeeds only below this many documents
MaxSessions == 1          \* createSession succeeds only below this many sessions

Procs     == {"r1", "r2"}             \* server-action invocations in flight
Emails    == {"a@x.io", "b@x.io"}
FullNames == {"Ann"}
Passwords == {"482913"}               \* what the caller types as the passcode

(* ---------------------------- values ---------------------------------- *)
Empty   == ""                         \* the empty (falsy) identifier
NullId  == "null"                     \* JSON null in an identifier position
Null    == [null |-> TRUE]            \* JSON null in a document position

\* The user id the Identity Service answers createEmailToken(ID.unique(), email)
\* with: one account per email, created on the first token request.  The mail and
\* the token it carries stay outside the model: createSession is accepted or
\* rejected as the Identity Service decides.
UserIdOf(email) == IF email = "a@x.io" THEN "acc-a" ELSE "acc-b"
AccountIds == {UserIdOf(e) : e \in Emails}

avatarPlaceholderUrl == "avatar-placeholder"
SESSION_COOKIE == "appwrite-session"
SIGN_IN == "/sign-in"

\* ID.unique() and the service's session secrets, as strings
Digit == <<"1", "2", "3", "4", "5", "6">>
DocId(n)     == "doc-" \o Digit[n]
SessionId(n) == "sid-" \o Digit[n]
SecretOf(n)  == "secret-" \o Digit[n]

VARIABLES
  profiles,      \* users collection: sequence of documents, in creation order
  sessions,      \* live sessions on the Identity Service
  nextSid,       \* sessions created so far + 1
  cookies,       \* the browser's cookie jar: name -> cookie
  pc,            \* per invocation: the await it is parked at, or "idle"
  arg,           \* per invocation: the action's arguments
  existingUser,  \* per invocation: local `existingUser`
  accountId,     \* per invocation: local `accountId` / `result.$id`
  client,        \* per invocation: session secret held by the session client
  session,       \* per invocation: local `session` of verifySecret
  trace,         \* per invocation: external calls and console output, in order
  alone,         \* per createAccount invocation: nothing else ran since it began
  pre,           \* per createAccount invocation running alone: profiles at its start
  returned       \* the invocation that has just completed, as its caller sees it

vars == <<profiles, sessions, nextSid, cookies, pc, arg, existingUser,
          accountId, client, session, trace, alone, pre, returned>>

shared == <<profiles, sessions, nextSid, cookies>>

(* ---------------------------- helpers --------------------------------- *)
NoOutcome       == [kind |-> "none"]
Return(v)       == [kind |-> "return", value |-> v]
Throw(e)        == [kind |-> "throw", error |-> e]
Redirected(url) == [kind |-> "redirect", to |-> url]

\* One entry of an invocation's trace: an external call and whether it succeeded,
\* or a console.log (from handleError, or the sign-out message).
CallTo(name, to, ok) == [ev |-> "call", what |-> name, to |-> to, ok |-> ok]
CallEv(name, ok)     == CallTo(name, Empty, ok)
ErrLog(msg)          == [ev |-> "handleError", what |-> msg, to |-> Empty, ok |-> TRUE]
InfoLog(msg)         == [ev |-> "log", what |-> msg, to |-> Empty, ok |-> TRUE]

ErrorOf(name) == "AppwriteException:" \o name

NoArg    == [none |-> TRUE]
NoReturn == [op |-> "none"]

\* parseStringify = JSON.parse(JSON.stringify(v)): fields that hold no value
\* (undefined, here Empty) are dropped, everything else is copied.
parseStringify(v) == [k \in {f \in DOMAIN v : v[f] # Empty} |-> v[k]]

\* databases.listDocuments(..., [Query.equal(field, value)])
ListByEmail(email) == SelectSeq(profiles, LAMBDA d : d.email = email)
\* Mutant: the accountId filter is dropped from the query.
ListByAccount_any(id) == profiles
ListByAccount(id)  == SelectSeq(profiles, LAMBDA d : d.accountId = id)

\* Mutant: the lookup never finds anybody.
getUserByEmail_blind(email) == Null

getUserByEmail(email) ==
  LET result == ListByEmail(email)
  IN  IF Len(result) > 0 THEN result[1] ELSE Null

SetCookie(name, c) ==
  [n \in DOMAIN cookies \cup {name} |-> IF n = name THEN c ELSE cookies[n]]
DeleteCookie(name) == [n \in DOMAIN cookies \ {name} |-> cookies[n]]

\* Invocation p is parked at `loc` and may take its next step (a completed call is
\* handed to its caller before anything else moves).
At(p, loc) == returned = NoReturn /\ pc[p] = loc
Idle(p) == pc[p] = "idle"
OthersIdle(p) == \A q \in Procs \ {p} : Idle(q)

\* Invocation p is parked at `next` with these arguments and locals.
Frame(p, next, a, eu, acc, cl, se, tr) ==
  /\ pc' = [pc EXCEPT ![p] = next]
  /\ arg' = [arg EXCEPT ![p] = a]
  /\ existingUser' = [existingUser EXCEPT ![p] = eu]
  /\ accountId' = [accountId EXCEPT ![p] = acc]
  /\ client' = [client EXCEPT ![p] = cl]
  /\ session' = [session EXCEPT ![p] = se]
  /\ trace' = [trace EXCEPT ![p] = tr]

Park(p, next, a, eu, acc, cl, se, tr) ==
  /\ Frame(p, next, a, eu, acc, cl, se, tr)
  /\ returned' = NoReturn

\* Invocation p of server action `name` completes with outcome `out`: its frame is
\* gone, and `returned` shows the call as its caller sees it, until the next step.
Complete(p, name, a, eu, acc, cl, out, tr, wasAlone, before) ==
  /\ Frame(p, "idle", NoArg, Null, Empty, Empty, Null, <<>>)
  /\ returned' = [proc |-> p, op |-> name, arg |-> a, existingUser |-> eu,
                  accountId |-> acc, client |-> cl, outcome |-> out, trace |-> tr,
                  alone |-> wasAlone, pre |-> before]

\* Book-keeping of overlap.  A call that begins ends every other call's solitude;
\* a createAccount call that begins while nothing else runs is alone, and keeps the
\* profiles it started from for as long as it stays alone.
BeginBook(p, tracked) ==
  /\ alone' = [q \in Procs |-> q = p /\ tracked /\ OthersIdle(p)]
  /\ pre' = [q \in Procs |-> IF q = p /\ tracked /\ OthersIdle(p) THEN profiles ELSE <<>>]
StepBook == UNCHANGED <<alone, pre>>
EndBook(p) ==
  /\ alone' = [alone EXCEPT ![p] = FALSE]
  /\ pre' = [pre EXCEPT ![p] = <<>>]

\* Mutant: handleError re-throws without logging.
handleError_silent(tr, message) == tr

\* handleError(error, message): console.log(error, message); throw error.
handleError(tr, message) == Append(tr, ErrLog(message))

Init ==
  /\ profiles = <<>>
  /\ sessions = {}
  /\ nextSid = 1
  /\ cookies = <<>>
  /\ pc = [p \in Procs |-> "idle"]
  /\ arg = [p \in Procs |-> NoArg]
  /\ existingUser = [p \in Procs |-> Null]
  /\ accountId = [p \in Procs |-> Empty]
  /\ client = [p \in Procs |-> Empty]
  /\ session = [p \in Procs |-> Null]
  /\ trace = [p \in Procs |-> <<>>]
  /\ alone = [p \in Procs |-> FALSE]
  /\ pre = [p \in Procs |-> <<>>]
  /\ returned = NoReturn

(* ---------------------------- createAccount ---------------------------- *)
\* const existingUser = await getUserByEmail(email);   (not inside any try)
createAccount_getUserByEmail(p) ==
  \E fullName \in FullNames, email \in Emails, ok \in BOOLEAN :
    LET a == [fullName |-> fullName, email |-> email]
        tr == <<CallEv("listDocuments", ok)>>
    IN  /\ At(p, "idle")
        /\ UNCHANGED shared
        /\ BeginBook(p, ok)
        /\ IF ok
           THEN Park(p, "ca_send", a, getUserByEmail(email), Empty, Empty, Null, tr)
           ELSE Complete(p, "createAccount", a, Null, Empty, Empty,
                         Throw(ErrorOf("listDocuments")), tr, OthersIdle(p), profiles)

\* Mutant: the passcode is mailed twice.
sendEmailOTP_twice(tr, email, ok) ==
  IF ok THEN Append(Append(tr, CallTo("createEmailToken", email, TRUE)),
                    CallTo("createEmailToken", email, TRUE))
  ELSE handleError(Append(tr, CallTo("createEmailToken", email, FALSE)),
                   "Failed to send email OTP")

\* sendEmailOTP: account.createEmailToken(ID.unique(), email) inside try/catch
\* with handleError(error, "Failed to send email OTP"); returns session.userId.
sendEmailOTP(tr, email, ok) ==
  IF ok THEN Append(tr, CallTo("createEmailToken", email, TRUE))
  ELSE handleError(Append(tr, CallTo("createEmailToken", email, FALSE)),
                   "Failed to send email OTP")

\* sendEmailOTP called on its own (it is exported): returns session.userId.
sendEmailOTP_createEmailToken(p) ==
  \E email \in Emails, ok \in BOOLEAN :
    /\ At(p, "idle")
    /\ UNCHANGED shared
    /\ BeginBook(p, FALSE)
    /\ Complete(p, "sendEmailOTP", [email |-> email], Null,
                IF ok THEN UserIdOf(email) ELSE Empty, Empty,
                IF ok THEN Return(UserIdOf(email))
                ELSE Throw(ErrorOf("createEmailToken")),
                sendEmailOTP(<<>>, email, ok), FALSE, <<>>)

\* Mutant: the passcode is sent only to new users, and a known user gets the
\* accountId of the stored profile.
createAccount_sendEmailOTP_onlyNew(p) ==
  /\ At(p, "ca_send")
  /\ UNCHANGED shared
  /\ \E ok \in BOOLEAN :
       LET id == UserIdOf(arg[p].email)
           tr == IF ok THEN Append(trace[p], CallTo("createEmailToken", arg[p].email, TRUE))
                 ELSE Append(Append(trace[p],
                                    CallTo("createEmailToken", arg[p].email, FALSE)),
                             ErrLog("Failed to send email OTP"))
       IN  IF existingUser[p] # Null
           THEN /\ EndBook(p)
                /\ Complete(p, "createAccount", arg[p], existingUser[p],
                            existingUser[p].accountId, Empty,
                            Return([accountId |-> existingUser[p].accountId]),
                            trace[p], alone[p], pre[p])
           ELSE IF ~ok
           THEN /\ EndBook(p)
                /\ Complete(p, "createAccount", arg[p], existingUser[p], Empty, Empty,
                            Throw(ErrorOf("createEmailToken")), tr, alone[p], pre[p])
           ELSE /\ StepBook
                /\ Park(p, "ca_create", arg[p], existingUser[p], id, Empty, Null, tr)

\* const accountId = await sendEmailOTP({ email });
\* if (!accountId) throw new Error("Failed to send an OTP");
\* if (!existingUser) {...createDocument...}   return parseStringify({ accountId });
createAccount_sendEmailOTP(p) ==
  /\ At(p, "ca_send")
  /\ UNCHANGED shared
  /\ \E ok \in BOOLEAN :
       LET id == UserIdOf(arg[p].email)
           tr == sendEmailOTP(trace[p], arg[p].email, ok)
       IN  IF ~ok
           THEN /\ EndBook(p)
                /\ Complete(p, "createAccount", arg[p], existingUser[p], Empty, Empty,
                            Throw(ErrorOf("createEmailToken")), tr, alone[p], pre[p])
           ELSE IF id = Empty
           THEN /\ EndBook(p)
                /\ Complete(p, "createAccount", arg[p], existingUser[p], id, Empty,
                            Throw("Error:Failed to send an OTP"), tr, alone[p], pre[p])
           ELSE IF existingUser[p] = Null
           THEN /\ StepBook
                /\ Park(p, "ca_create", arg[p], existingUser[p], id, Empty, Null, tr)
           ELSE /\ EndBook(p)
                /\ Complete(p, "createAccount", arg[p], existingUser[p], id, Empty,
                            Return(parseStringify([accountId |-> id])), tr,
                            alone[p], pre[p])

\* await databases.createDocument(..., ID.unique(), {fullName, email, avatar, accountId})
\* (not inside any try), then return parseStringify({ accountId }).
NewDocument(p) ==
  [id |-> DocId(Len(profiles) + 1), fullName |-> arg[p].fullName,
   email |-> arg[p].email, avatar |-> avatarPlaceholderUrl,
   accountId |-> accountId[p]]

createAccount_createDocument(p) ==
  /\ At(p, "ca_create")
  /\ UNCHANGED <<sessions, nextSid, cookies>>
  /\ EndBook(p)
  /\ \E ok \in BOOLEAN :
       LET created == ok /\ Len(profiles) < MaxProfiles
           tr == Append(trace[p], CallEv("createDocument", created))
       IN  /\ profiles' = IF created THEN Append(profiles, NewDocument(p)) ELSE profiles
           /\ Complete(p, "createAccount", arg[p], existingUser[p], accountId[p], Empty,
                       IF created
                       THEN Return(parseStringify([accountId |-> accountId[p]]))
                       ELSE Throw(ErrorOf("createDocument")),
                       tr, alone[p], pre[p])

(* ---------------------------- verifySecret ----------------------------- *)
\* try { session = await account.createSession(accountId, password); ...
\* } catch (error) { handleError(error, "Failed to verify OTP"); }
verifySecret_createSession(p) ==
  \E id \in AccountIds, password \in Passwords, ok \in BOOLEAN :
    LET a == [accountId |-> id, password |-> password]
        accepted == ok /\ nextSid <= MaxSessions
        s == [id |-> SessionId(nextSid), secret |-> SecretOf(nextSid), userId |-> id]
    IN  /\ At(p, "idle")
        /\ UNCHANGED <<profiles, cookies>>
        /\ BeginBook(p, FALSE)
        /\ IF accepted
           THEN /\ sessions' = sessions \cup {s}
                /\ nextSid' = nextSid + 1
                /\ Park(p, "vs_cookie", a, Null, Empty, Empty, s,
                        <<CallEv("createSession", TRUE)>>)
           ELSE /\ UNCHANGED <<sessions, nextSid>>
                /\ Complete(p, "verifySecret", a, Null, Empty, Empty,
                            Throw(ErrorOf("createSession")),
                            handleError(<<CallEv("createSession", FALSE)>>,
                                        "Failed to verify OTP"),
                            FALSE, <<>>)

\* (await cookies()).set("appwrite-session", session.secret, {...});
\* return parseStringify({ sessionId: session.$id });
\* Mutant: the cookie is readable by scripts and sent over plain http.
SessionCookie_open(secret) ==
  [value |-> secret, path |-> "/", httpOnly |-> FALSE, sameSite |-> "strict",
   secure |-> FALSE]

SessionCookie(secret) ==
  [value |-> secret, path |-> "/", httpOnly |-> TRUE, sameSite |-> "strict",
   secure |-> TRUE]

verifySecret_setCookie(p) ==
  /\ At(p, "vs_cookie")
  /\ UNCHANGED <<profiles, sessions, nextSid>>
  /\ EndBook(p)
  /\ cookies' = SetCookie(SESSION_COOKIE, SessionCookie(session[p].secret))
  /\ Complete(p, "verifySecret", arg[p], Null, Empty, session[p].secret,
              Return(parseStringify([sessionId |-> session[p].id])), trace[p],
              FALSE, <<>>)

(* ---------------------------- session client --------------------------- *)
\* createSessionClient(): the client of the request's session cookie; without the
\* cookie there is no session and it throws.
HasSessionCookie == SESSION_COOKIE \in DOMAIN cookies
createSessionClient == IF HasSessionCookie THEN cookies[SESSION_COOKIE].value ELSE Empty

\* The live session a session client acts for ("current").
CurrentSessions(secret) == {s \in sessions : s.secret = secret}

(* ---------------------------- getCurrentUser --------------------------- *)
\* const { account, databases } = await createSessionClient();   (no try at all)
getCurrentUser_createSessionClient(p) ==
  /\ At(p, "idle")
  /\ UNCHANGED shared
  /\ BeginBook(p, FALSE)
  /\ IF HasSessionCookie
     THEN Park(p, "gc_get", NoArg, Null, Empty, createSessionClient, Null, <<>>)
     ELSE Complete(p, "getCurrentUser", NoArg, Null, Empty, Empty,
                   Throw("Error:No session"), <<>>, FALSE, <<>>)

\* const result = await account.get();
getCurrentUser_get(p) ==
  /\ At(p, "gc_get")
  /\ UNCHANGED shared
  /\ \E ok \in BOOLEAN :
       LET tr == Append(trace[p], CallEv("get", ok /\ CurrentSessions(client[p]) # {}))
       IN  IF ok /\ CurrentSessions(client[p]) # {}
           THEN /\ StepBook
                /\ Park(p, "gc_list", NoArg, Null,
                        (CHOOSE s \in CurrentSessions(client[p]) : TRUE).userId,
                        client[p], Null, tr)
           ELSE /\ EndBook(p)
                /\ Complete(p, "getCurrentUser", NoArg, Null, Empty, client[p],
                            Throw(ErrorOf("get")), tr, FALSE, <<>>)

\* const user = await databases.listDocuments(..., [Query.equal("accountId", result.$id)])
\* if (user.total <= 0) return null;   return parseStringify(user.documents[0]);
getCurrentUser_listDocuments(p) ==
  /\ At(p, "gc_list")
  /\ UNCHANGED shared
  /\ EndBook(p)
  /\ \E ok \in BOOLEAN :
       LET user == ListByAccount(accountId[p])
       IN  Complete(p, "getCurrentUser", NoArg, Null, accountId[p], client[p],
                    IF ~ok THEN Throw(ErrorOf("listDocuments"))
                    ELSE IF Len(user) <= 0 THEN Return(Null)
                    ELSE Return(parseStringify(user[1])),
                    Append(trace[p], CallEv("listDocuments", ok)), FALSE, <<>>)

(* ---------------------------- signOutUser ------------------------------ *)
\* const { account } = await createSessionClient();   (before the try)
signOutUser_createSessionClient(p) ==
  /\ At(p, "idle")
  /\ UNCHANGED shared
  /\ BeginBook(p, FALSE)
  /\ IF HasSessionCookie
     THEN Park(p, "so_delete", NoArg, Null, Empty, createSessionClient, Null, <<>>)
     ELSE Complete(p, "signOutUser", NoArg, Null, Empty, Empty,
                   Throw("Error:No session"), <<>>, FALSE, <<>>)

\* Mutant: no finally block; the redirect follows the try block only.
signOutUser_afterTry(pending) ==
  IF pending.kind = "throw" THEN pending ELSE Redirected(SIGN_IN)

\* finally { redirect("/sign-in"); }: redirect throws NEXT_REDIRECT, which replaces
\* whatever the try or the catch block was about to complete with.
signOutUser_finally(pending) == Redirected(SIGN_IN)

\* try { await account.deleteSession("current"); ...
\* } catch (error) { handleError(error, "Failed to sign out user"); } finally {...}
signOutUser_deleteSession(p) ==
  /\ At(p, "so_delete")
  /\ UNCHANGED <<profiles, nextSid, cookies>>
  /\ \E ok \in BOOLEAN :
       IF ok /\ CurrentSessions(client[p]) # {}
       THEN /\ sessions' = sessions \ CurrentSessions(client[p])
            /\ StepBook
            /\ Park(p, "so_cookie", NoArg, Null, Empty, client[p], Null,
                    Append(trace[p], CallEv("deleteSession", TRUE)))
       ELSE /\ sessions' = sessions
            /\ EndBook(p)
            /\ Complete(p, "signOutUser", NoArg, Null, Empty, client[p],
                        signOutUser_finally(Throw(ErrorOf("deleteSession"))),
                        handleError(Append(trace[p], CallEv("deleteSession", FALSE)),
                                    "Failed to sign out user"),
                        FALSE, <<>>)

\* Mutant: the cookie deletion is left out.
signOutUser_keepCookie(p) ==
  /\ At(p, "so_cookie")
  /\ UNCHANGED <<profiles, sessions, nextSid>>
  /\ EndBook(p)
  /\ cookies' = cookies
  /\ Complete(p, "signOutUser", NoArg, Null, Empty, client[p],
              Redirected(SIGN_IN),
              Append(trace[p], InfoLog("User logged out successfully")), FALSE, <<>>)

\* (await cookies()).delete("appwrite-session");
\* console.log("User logged out successfully");  then the finally block
signOutUser_deleteCookie(p) ==
  /\ At(p, "so_cookie")
  /\ UNCHANGED <<profiles, sessions, nextSid>>
  /\ EndBook(p)
  /\ cookies' = DeleteCookie(SESSION_COOKIE)
  /\ Complete(p, "signOutUser", NoArg, Null, Empty, client[p],
              signOutUser_finally(NoOutcome),
              Append(trace[p], InfoLog("User logged out successfully")), FALSE, <<>>)

(* ---------------------------- signInUser ------------------------------- *)
\* try { const existingUser = await getUserByEmail(email); if (existingUser) {...}
\*       return parseStringify({ accountId: null, error: "User not found" });
\* } catch (error) { handleError(error, "Failed to sign in user"); }
signInUser_getUserByEmail(p) ==
  \E email \in Emails, ok \in BOOLEAN :
    LET a == [email |-> email]
        found == getUserByEmail(email)
    IN  /\ At(p, "idle")
        /\ UNCHANGED shared
        /\ BeginBook(p, FALSE)
        /\ IF ~ok
           THEN Complete(p, "signInUser", a, Null, Empty, Empty,
                         Throw(ErrorOf("listDocuments")),
                         handleError(<<CallEv("listDocuments", FALSE)>>,
                                     "Failed to sign in user"),
                         FALSE, <<>>)
           ELSE IF found = Null
           THEN Complete(p, "signInUser", a, found, Empty, Empty,
                         Return(parseStringify([accountId |-> NullId,
                                                error |-> "User not found"])),
                         <<CallEv("listDocuments", TRUE)>>, FALSE, <<>>)
           ELSE Park(p, "si_send", a, found, Empty, Empty, Null,
                     <<CallEv("listDocuments", TRUE)>>)

\* await sendEmailOTP({ email });
\* return parseStringify({ accountId: existingUser.accountId });
\* A failure is logged and re-thrown by sendEmailOTP, then caught, logged and
\* re-thrown again by signInUser's own catch.
signInUser_sendEmailOTP(p) ==
  /\ At(p, "si_send")
  /\ UNCHANGED shared
  /\ EndBook(p)
  /\ \E ok \in BOOLEAN :
       LET tr == sendEmailOTP(trace[p], arg[p].email, ok)
       IN  Complete(p, "signInUser", arg[p], existingUser[p], Empty, Empty,
                    IF ok
                    THEN Return(parseStringify([accountId |-> existingUser[p].accountId]))
                    ELSE Throw(ErrorOf("createEmailToken")),
                    IF ok THEN tr ELSE handleError(tr, "Failed to sign in user"),
                    FALSE, <<>>)

(* ---------------------------- specification ---------------------------- *)
\* The completed call's result (or error, or redirect) reaches its caller.
Respond ==
  /\ returned # NoReturn
  /\ returned' = NoReturn
  /\ UNCHANGED <<shared, pc, arg, existingUser, accountId, client, session, trace,
                 alone, pre>>

Next ==
  \/ \E p \in Procs :
       \/ sendEmailOTP_createEmailToken(p)
       \/ createAccount_getUserByEmail(p)
       \/ createAccount_sendEmailOTP(p)
       \/ createAccount_createDocument(p)
       \/ verifySecret_createSession(p)
       \/ verifySecret_setCookie(p)
       \/ getCurrentUser_createSessionClient(p)
       \/ getCurrentUser_get(p)
       \/ getCurrentUser_listDocuments(p)
       \/ signOutUser_createSessionClient(p)
       \/ signOutUser_deleteSession(p)
       \/ signOutUser_deleteCookie(p)
       \/ signInUser_getUserByEmail(p)
       \/ signInUser_sendEmailOTP(p)
  \/ Respond

Spec == Init /\ [][Next]_vars

\* Every awaited call settles: an invocation parked at an await takes its next step,
\* and a completed call reaches its caller.
Continue(p) ==
  \/ createAccount_sendEmailOTP(p)
  \/ createAccount_createDocument(p)
  \/ verifySecret_setCookie(p)
  \/ getCurrentUser_get(p)
  \/ getCurrentUser_listDocuments(p)
  \/ signOutUser_deleteSession(p)
  \/ signOutUser_deleteCookie(p)
  \/ signInUser_sendEmailOTP(p)

FairSpec == Spec /\ WF_vars(Respond) /\ \A p \in Procs : SF_vars(Continue(p))

(* ======================================================================= *)
(* Properties                                                              *)
(* ======================================================================= *)
R == returned
Just(name) == R.op = name

Events(tr, kind)  == SelectSeq(tr, LAMBDA e : e.ev = kind)
Calls(tr)         == Events(tr, "call")
CallsOf(tr, name) == SelectSeq(tr, LAMBDA e : e.ev = "call" /\ e.what = name)
FailedCalls(tr)   == SelectSeq(tr, LAMBDA e : e.ev = "call" /\ ~e.ok)
ErrLogs(tr)       == [i \in DOMAIN Events(tr, "handleError") |->
                        Events(tr, "handleError")[i].what]
AllCallsOk(tr)    == FailedCalls(tr) = <<>>
CountByEmail(docs, email) == Len(SelectSeq(docs, LAMBDA d : d.email = email))
Quiescent == \A p \in Procs : Idle(p)

\* The first failed call of a trace, and what follows it (a retry would be there).
FirstFailure(tr) == CHOOSE i \in DOMAIN tr : tr[i].ev = "call" /\ ~tr[i].ok
                      /\ \A j \in 1..(i - 1) : ~(tr[j].ev = "call" /\ ~tr[j].ok)
AfterFailure(tr) == SubSeq(tr, FirstFailure(tr) + 1, Len(tr))
FailedCall(tr)   == tr[FirstFailure(tr)].what

(* ------------------------------- C1 ----------------------------------- *)
\* C1 (as claimed): the profile store holds at most one profile document per
\* email in every reachable state, however createAccount invocations interleave.
C1_AtMostOneProfilePerEmail ==
  \A e \in Emails : Len(ListByEmail(e)) <= 1

(* ------------------------------- C2 ----------------------------------- *)
\* C2: a createAccount call that ran alone and whose external calls all succeeded
\* returns a non-empty account identifier; if no profile had its email before the
\* call, the store is the old store plus exactly one profile with that email and the
\* returned accountId; otherwise the store is unchanged.
C2_CreateAccountAlone ==
  (Just("createAccount") /\ R.alone /\ AllCallsOk(R.trace)) =>
    /\ R.outcome.kind = "return"
    /\ DOMAIN R.outcome.value = {"accountId"}
    /\ R.outcome.value.accountId # Empty
    /\ IF CountByEmail(R.pre, R.arg.email) = 0
       THEN /\ Len(profiles) = Len(R.pre) + 1
            /\ SubSeq(profiles, 1, Len(R.pre)) = R.pre
            /\ profiles[Len(profiles)].email = R.arg.email
            /\ profiles[Len(profiles)].accountId = R.outcome.value.accountId
            /\ CountByEmail(profiles, R.arg.email) = 1
       ELSE profiles = R.pre

\* A call alone that added the profile of its email to a store holding another's.
C2_Witness ==
  /\ Just("createAccount") /\ R.alone /\ AllCallsOk(R.trace)
  /\ R.pre # <<>>
  /\ CountByEmail(R.pre, R.arg.email) = 0
  /\ CountByEmail(profiles, R.arg.email) = 1

(* ------------------------------- C3 ----------------------------------- *)
\* accepted: the cookie, its attributes and the returned session identifier
C3_Accepted ==
  (Just("verifySecret") /\ AllCallsOk(R.trace)) =>
    /\ R.outcome.kind = "return"
    /\ DOMAIN R.outcome.value = {"sessionId"}
    /\ R.outcome.value.sessionId # Empty
    /\ HasSessionCookie
    /\ cookies[SESSION_COOKIE] =
         [value |-> R.client, path |-> "/", httpOnly |-> TRUE,
          sameSite |-> "strict", secure |-> TRUE]
    /\ \E s \in sessions :
         /\ s.secret = cookies[SESSION_COOKIE].value
         /\ s.id = R.outcome.value.sessionId
         /\ s.userId = R.arg.accountId

\* rejected: the call throws the error of createSession
C3_Rejected ==
  (Just("verifySecret") /\ ~AllCallsOk(R.trace)) =>
    /\ R.outcome = Throw(ErrorOf("createSession"))
    /\ Calls(R.trace) = <<CallEv("createSession", FALSE)>>

\* rejected: the step that throws leaves the cookie jar as it was
C3_RejectKeepsCookies ==
  (returned'.op = "verifySecret" /\ returned'.outcome.kind = "throw")
    => cookies' = cookies

\* C3: verifySecret.  When the Identity Service accepts the pair, the cookie
\* appwrite-session holds the new session's secret with path "/", httpOnly,
\* sameSite strict and secure, and a non-empty session identifier, that session's,
\* is returned.  When createSession fails the call throws, and the step that
\* rejects leaves the cookie jar exactly as it was.
C3_VerifySecret ==
  /\ [](C3_Accepted /\ C3_Rejected)
  /\ [][C3_RejectKeepsCookies]_vars

\* An accepted verifySecret has just returned and the cookie is set.
C3_Witness ==
  /\ Just("verifySecret") /\ R.outcome.kind = "return"
  /\ HasSessionCookie

(* ------------------------------- C4 ----------------------------------- *)
\* C4 (as claimed): after every signOutUser call that obtained its session client,
\* also one whose deleteSession("current") failed, the cookie appwrite-session is
\* absent and the caller has been redirected to /sign-in.
C4_SignOutClearsCookieAndRedirects ==
  (Just("signOutUser") /\ R.client # Empty) =>
    /\ ~HasSessionCookie
    /\ R.outcome = Redirected(SIGN_IN)

(* ------------------------------- C5 ----------------------------------- *)
\* C5: a signInUser call whose profile lookup returned has, when a profile with
\* the email exists, made exactly one passcode send, to that email, and what it
\* returns is {accountId} of that profile; when none exists it has made no passcode
\* send and returns {accountId: null, error: "User not found"}.
C5_SignIn ==
  (Just("signInUser") /\ R.trace[1] = CallEv("listDocuments", TRUE)) =>
    LET docs  == ListByEmail(R.arg.email)
        sends == CallsOf(R.trace, "createEmailToken")
    IN  IF Len(docs) > 0
        THEN /\ Len(sends) = 1
             /\ sends[1].to = R.arg.email
             /\ R.outcome.kind = "return" =>
                  R.outcome.value = [accountId |-> docs[1].accountId]
             /\ sends[1].ok => R.outcome.kind = "return"
        ELSE /\ Len(sends) = 0
             /\ R.outcome = Return([accountId |-> NullId, error |-> "User not found"])

\* A sign-in that returned for an email whose profile is not the first of the store.
C5_Witness ==
  /\ Just("signInUser") /\ R.outcome.kind = "return"
  /\ Len(ListByEmail(R.arg.email)) > 0
  /\ Len(profiles) > 1
  /\ profiles[1].email # R.arg.email

(* ------------------------------- C6 ----------------------------------- *)
\* The profiles of an account.
ProfilesOf(id) == SelectSeq(profiles, LAMBDA d : d.accountId = id)

\* the outcomes of a completed getCurrentUser call
C6_Outcomes ==
  Just("getCurrentUser") =>
    LET gets  == CallsOf(R.trace, "get")
        lists == CallsOf(R.trace, "listDocuments")
        docs  == ProfilesOf(R.accountId)
    IN  IF R.client = Empty
        THEN R.outcome = Throw("Error:No session") /\ R.trace = <<>>
        ELSE IF gets # <<CallEv("get", TRUE)>>
        THEN R.outcome = Throw(ErrorOf("get")) /\ lists = <<>>
        ELSE IF lists # <<CallEv("listDocuments", TRUE)>>
        THEN R.outcome = Throw(ErrorOf("listDocuments"))
        ELSE /\ R.accountId # Empty
             /\ IF docs = <<>>
                THEN R.outcome = Return(Null)
                ELSE /\ R.outcome = Return(docs[1])
                     /\ R.outcome.value.accountId = R.accountId

\* C6 (as claimed): getCurrentUser has exactly three outcomes: the error of the
\* session lookup with no profile lookup made, null for an active session without
\* a profile, and the profile of the session's account.
C6_ExactlyThreeOutcomes ==
  Just("getCurrentUser") =>
    \/ /\ R.outcome \in {Throw("Error:No session"), Throw(ErrorOf("get"))}
       /\ CallsOf(R.trace, "listDocuments") = <<>>
    \/ /\ R.outcome = Return(Null)
       /\ R.accountId # Empty
       /\ ProfilesOf(R.accountId) = <<>>
    \/ /\ R.outcome.kind = "return"
       /\ R.outcome.value # Null
       /\ R.outcome.value.accountId = R.accountId

\* A step of invocation p inside getCurrentUser.
GetCurrentUserStep(p) ==
  \/ pc[p] = "idle" /\ pc'[p] = "gc_get"
  \/ pc[p] \in {"gc_get", "gc_list"} /\ pc'[p] # pc[p]
  \/ returned = NoReturn /\ returned'.op = "getCurrentUser"

\* the session lookup is passed only with the cookie and a live session of it,
\* whose account is the one the profile lookup asks for
C6_SessionLookup ==
  \A p \in Procs :
    /\ (pc[p] = "idle" /\ pc'[p] = "gc_get") => HasSessionCookie
    /\ (pc[p] = "gc_get" /\ pc'[p] = "gc_list") =>
         \E s \in sessions : s.secret = client[p] /\ s.userId = accountId'[p]

\* no step of getCurrentUser writes
C6_ReadOnly ==
  (\E p \in Procs : GetCurrentUserStep(p)) => UNCHANGED <<profiles, sessions, cookies>>

\* C6 (amended): getCurrentUser has four outcomes.  Without an active session (no
\* cookie, or get-current-identity fails) the error of the session lookup is
\* thrown and no profile lookup is made; with an active session, a failed profile
\* lookup throws its error; a profile lookup that finds no profile of the
\* session's account gives null; one that finds some gives the first, whose
\* accountId is the session's.  No step of getCurrentUser changes profiles,
\* sessions or cookies.
C6_GetCurrentUser ==
  /\ []C6_Outcomes
  /\ [][C6_SessionLookup /\ C6_ReadOnly]_vars

\* getCurrentUser returned a profile that is not the first of the store.
C6_Witness ==
  /\ Just("getCurrentUser") /\ R.outcome.kind = "return"
  /\ R.outcome.value # Null
  /\ profiles[1].accountId # R.accountId

(* ------------------------------- C7 ----------------------------------- *)
PropagatingOps == {"sendEmailOTP", "createAccount", "verifySecret",
                   "getCurrentUser", "signInUser"}

\* A completed call of an operation other than signOutUser in which an external
\* call failed.
FailedElsewhere == R.op \in PropagatingOps /\ ~AllCallsOk(R.trace)

\* C7 (as claimed): in every operation other than signOutUser a failed external
\* call is logged exactly once with a contextual message and re-thrown to the
\* caller, and nothing is called again after the failure.
C7_LoggedExactlyOnce ==
  FailedElsewhere =>
    /\ R.outcome = Throw(ErrorOf(FailedCall(R.trace)))
    /\ Calls(AfterFailure(R.trace)) = <<>>
    /\ Len(ErrLogs(R.trace)) = 1

\* The messages the code logs for a failure of `call` inside operation `name`.
MessagesFor(name, call) ==
  IF call = "createEmailToken" /\ name = "signInUser"
    THEN <<"Failed to send email OTP", "Failed to sign in user">>
  ELSE IF call = "createEmailToken" THEN <<"Failed to send email OTP">>
  ELSE IF call = "createSession" THEN <<"Failed to verify OTP">>
  ELSE IF call = "listDocuments" /\ name = "signInUser" THEN <<"Failed to sign in user">>
  ELSE <<>>

\* C7 (amended): such a failure is always re-thrown to the caller with no retry,
\* and it is logged once by each catch block it passes through: once for passcode
\* issuance (sendEmailOTP, createAccount), create-session (verifySecret) and the
\* profile lookup of signInUser, twice for passcode issuance inside signInUser,
\* and not at all for the profile lookup and create-document of createAccount and
\* for both calls of getCurrentUser.
C7_RethrownLoggedPerCatch ==
  FailedElsewhere =>
    /\ R.outcome = Throw(ErrorOf(FailedCall(R.trace)))
    /\ Len(FailedCalls(R.trace)) = 1
    /\ Calls(AfterFailure(R.trace)) = <<>>
    /\ ErrLogs(R.trace) = MessagesFor(R.op, FailedCall(R.trace))
    /\ ErrLogs(AfterFailure(R.trace)) = ErrLogs(R.trace)

\* A signInUser whose passcode issuance failed and was logged twice.
C7_Witness ==
  /\ Just("signInUser") /\ ~AllCallsOk(R.trace)
  /\ Len(ErrLogs(R.trace)) = 2

(* ------------------------------- C8 ----------------------------------- *)
\* what the caller of a signOutUser that had its session client observes
C8_RedirectIsTheOutcome ==
  (Just("signOutUser") /\ R.client # Empty) =>
    /\ R.outcome = Redirected(SIGN_IN)
    /\ IF AllCallsOk(R.trace)
       THEN R.trace = <<CallEv("deleteSession", TRUE),
                        InfoLog("User logged out successfully")>>
       ELSE R.trace = <<CallEv("deleteSession", FALSE),
                        ErrLog("Failed to sign out user")>>

\* C8: once signOutUser has its session client, the redirect to /sign-in fires on
\* every path: after deleteSession and the cookie deletion succeeded, and also when
\* deleteSession failed, where the error is logged and re-thrown by handleError and
\* the redirect of the finally block replaces it as what the caller observes.
C8_RedirectFires ==
  /\ []C8_RedirectIsTheOutcome
  /\ \A p \in Procs :
       (pc[p] \in {"so_delete", "so_cookie"}) ~>
         (Just("signOutUser") /\ R.proc = p /\ R.outcome = Redirected(SIGN_IN))

\* A signOutUser whose deleteSession failed has just redirected its caller.
C8_Witness ==
  /\ Just("signOutUser") /\ ~AllCallsOk(R.trace)
  /\ R.outcome = Redirected(SIGN_IN)

(* ------------------------------- C9 ----------------------------------- *)
\* a completed createAccount call: the send follows the lookup on both branches,
\* a failed send throws before createDocument, createDocument follows a send
C9_Completed ==
  Just("createAccount") =>
    LET sends   == CallsOf(R.trace, "createEmailToken")
        creates == CallsOf(R.trace, "createDocument")
    IN  /\ R.trace[1] = CallEv("listDocuments", TRUE) =>
             /\ Len(sends) = 1
             /\ sends[1].to = R.arg.email
             /\ R.trace[2] = sends[1]
        /\ (sends # <<>> /\ ~sends[1].ok) =>
             /\ R.outcome = Throw(ErrorOf("createEmailToken"))
             /\ creates = <<>>
        /\ creates # <<>> =>
             /\ sends = <<CallTo("createEmailToken", R.arg.email, TRUE)>>
             /\ R.accountId = UserIdOf(R.arg.email)

\* a call about to create its profile has been issued its passcode
C9_Running ==
  \A p \in Procs :
    pc[p] = "ca_create" =>
      /\ CallsOf(trace[p], "createEmailToken") =
           <<CallTo("createEmailToken", arg[p].email, TRUE)>>
      /\ accountId[p] # Empty

\* every stored profile carries the account id issued for its email
C9_Store ==
  \A i \in DOMAIN profiles :
    profiles[i].accountId # Empty /\ profiles[i].accountId = UserIdOf(profiles[i].email)

\* the step in which issuance fails leaves the profile store as it was
C9_FailedSendKeepsStore ==
  (returned'.op = "createAccount"
     /\ returned'.outcome = Throw(ErrorOf("createEmailToken")))
    => profiles' = profiles

C10_CookieNamesLiveSession ==
  (Quiescent /\ HasSessionCookie) => CurrentSessions(cookies[SESSION_COOKIE].value) # {}

\* a signOutUser whose deleteSession succeeded has removed session and cookie
C10_SignOutSucceeded ==
  (Just("signOutUser") /\ R.client # Empty /\ AllCallsOk(R.trace)) =>
    /\ ~HasSessionCookie
    /\ CurrentSessions(R.client) = {}

\* the step in which deleteSession fails leaves sessions and cookies as they were
C10_SignOutFailedKeepsBoth ==
  (returned'.op = "signOutUser" /\ ~AllCallsOk(returned'.trace))
    => UNCHANGED <<sessions, cookies>>

====
